---- MODULE Spec2Model ----
(***************************************************************************)
(* State-machine model of src/src/pounders/solve_auxiliary.py: the History *)
(* arrays (xhist, fhist, fnorm, nhist), the ModelIndexSet (model_indices,  *)
(* mpoints), the basis matrix (qmat, q_is_I) and the three operations that *)
(* act on them: find_nearby_points, improve_model (with _add_point) and    *)
(* add_more_points.  Every loop iteration of an operation is one step.     *)
(*                                                                         *)
(* Numbers are exact integers.  Points are kept on the coordinate axes     *)
(* through xmin, at offsets that are multiples of delta, so that scaled    *)
(* directions, the Householder factor of qmat and the poisedness test are  *)
(* all computed exactly.  Norm comparisons are made on squares.            *)
(***************************************************************************)
EXTENDS Integers, Sequences, FiniteSets, TLC

\* ------------------------------------------------------------- bounds
\* Largest number of parameters n explored.
MaxN == 3
\* Number of preallocated History rows (1000 in the reference).
HistCapacity == 7
\* Largest number of History points present before the first call.
MaxInitHist == 2
\* Largest number of outer iterations in one run.
MaxIters == 2

\* ------------------------------------------------- program constants
\* np.eye(3) in improve_model.
EyeDim == 3
\* work = np.zeros(3) in improve_model.
WorkLen == 3
\* Q_tmp = np.zeros((7, 7)) in add_more_points.
QtmpDim == 7

\* ------------------------------------------------------ input domains
DeltaSet == {2}
CSet == {1, 2}
Theta1Set == {0, 1, 2}
C2Set == {1, 2}
Theta2Set == {0, 1}
AddAllSet == {0, 1}
\* Scaled offsets along the first axis that the initial History may hold.
InitAmps == {-1, 1, 2, 3}

\* ------------------------------------------------------------ vectors
Dim(nn) == 0 .. (nn - 1)
Zero(nn) == [k \in Dim(nn) |-> 0]
Unit(nn, k) == [r \in Dim(nn) |-> IF r = k THEN 1 ELSE 0]
VAdd(x, y) == [k \in DOMAIN x |-> x[k] + y[k]]
VSub(x, y) == [k \in DOMAIN x |-> x[k] - y[k]]
VScale(a, x) == [k \in DOMAIN x |-> a * x[k]]
\* Exact division: every offset from xmin is a multiple of delta.
VDiv(x, d) == [k \in DOMAIN x |-> x[k] \div d]

RECURSIVE SumOver(_, _)
SumOver(f, S) ==
    IF S = {} THEN 0
    ELSE LET k == CHOOSE k \in S : TRUE IN f[k] + SumOver(f, S \ {k})

Dot(x, y) == SumOver([k \in DOMAIN x |-> x[k] * y[k]], DOMAIN x)
\* np.linalg.norm squared.
NormSq(x) == Dot(x, x)
\* np.linalg.norm(x[from:]) squared.
TailNormSq(x, from) ==
    SumOver([k \in DOMAIN x |-> IF k >= from THEN x[k] * x[k] ELSE 0], DOMAIN x)

\* ----------------------------------------------------------- matrices
\* A matrix is a function row -> (column -> entry).
Identity(nn) == [r \in Dim(nn) |-> [k \in Dim(nn) |-> IF r = k THEN 1 ELSE 0]]
ZeroMat(nn) == [r \in Dim(nn) |-> [k \in Dim(nn) |-> 0]]
Col(A, k) == [r \in DOMAIN A |-> A[r][k]]
SetCol(A, k, x) == [r \in DOMAIN A |-> [A[r] EXCEPT ![k] = x[r]]]
\* c @ A for a 1-D c: the vector of c's products with A's columns.
VecMat(x, A) == [k \in DOMAIN x |-> Dot(x, Col(A, k))]
MatVec(A, x) == [r \in DOMAIN A |-> Dot(A[r], x)]

Sgn(a) == IF a > 0 THEN 1 ELSE IF a < 0 THEN -1 ELSE 0

\* The orthogonal factor of the Householder QR (LAPACK geqrf) of A.
\* A column with nothing below the diagonal gets the identity reflector
\* (tau = 0), so an upper triangular A has Q = I.  A matrix whose only
\* nonzero entry a sits below the diagonal, at row k of column j, gets the
\* reflector that maps a*e_k to -|a|*e_j: it exchanges e_j and e_k with
\* the sign -sgn(a).
QFactor(A) ==
    LET D == DOMAIN A
        below == {<<r, k>> \in D \X D : r > k /\ A[r][k] # 0}
    IN  IF below = {} THEN [r \in D |-> [k \in D |-> IF r = k THEN 1 ELSE 0]]
        ELSE LET p == CHOOSE p \in below : TRUE
                 s == -Sgn(A[p[1]][p[2]])
             IN  [r \in D |-> [k \in D |->
                    IF <<r, k>> = p \/ <<k, r>> = p THEN s
                    ELSE IF r = k /\ r # p[1] /\ r # p[2] THEN 1
                    ELSE 0]]

\* --------------------------------------------------------------- state
VARIABLES
    n,              \* number of parameters
    delta,          \* trust-region radius
    minindex,       \* History index of the best point; xmin = xhist[minindex]
    xhist,          \* History: parameter vectors
    fhist,          \* History: residual vectors
    fnorm,          \* History: dot(residual, residual)
    nhist,          \* number of History points
    model_indices,  \* ModelIndexSet
    mpoints,        \* number of model points
    qmat,           \* basis matrix Q
    q_is_I,         \* 1 while Q is still the identity
    pc,             \* "idle", the running operation, or "error"
    err,            \* the exception that ended the run, or "none"
    frame,          \* arguments and locals of the running call
    phase,          \* the outer iteration's stage: "select", "improve",
                    \* "extend" or "done"
    iter            \* number of the outer iteration

hist == <<xhist, fhist, fnorm, nhist>>
ctx == <<n, delta, minindex, iter>>
vars == <<n, delta, minindex, xhist, fhist, fnorm, nhist,
          model_indices, mpoints, qmat, q_is_I, pc, err, frame, phase, iter>>

xmin == xhist[minindex]
HistIdx == 0 .. (HistCapacity - 1)
\* model_indices has shape (2n + 1,).
ModelLen(nn) == 2 * nn + 1
NoFrame == [op |-> "none"]

\* The external criterion capability: a pure function of the point.
criterion(x) == [k \in DOMAIN x |-> x[k] - 1]
compute_fnorm(criterion_value) == Dot(criterion_value, criterion_value)

\* Scaled points the initial History may hold besides xmin itself.
InitPoints(nn) ==
    {VScale(a, Unit(nn, 0)) : a \in InitAmps} \cup {Unit(nn, k) : k \in Dim(nn)}

Init ==
    /\ n \in 1 .. MaxN
    /\ delta \in DeltaSet
    /\ nhist \in 1 .. MaxInitHist
    /\ minindex \in 0 .. (nhist - 1)
    /\ \E pts \in [0 .. (nhist - 1) -> InitPoints(n) \cup {Zero(n)}] :
          /\ pts[minindex] = Zero(n)
          /\ xhist = [h \in HistIdx |->
                        IF h < nhist THEN VScale(delta, pts[h]) ELSE Zero(n)]
    /\ fhist = [h \in HistIdx |-> IF h < nhist THEN criterion(xhist[h]) ELSE Zero(n)]
    /\ fnorm = [h \in HistIdx |-> IF h < nhist THEN compute_fnorm(fhist[h]) ELSE 0]
    /\ model_indices = [j \in 0 .. (ModelLen(n) - 1) |-> 0]
    /\ mpoints = 0
    /\ qmat = Identity(n)
    /\ q_is_I = 1
    /\ pc = "idle"
    /\ err = "none"
    /\ frame = NoFrame
    /\ phase = "select"
    /\ iter = 1

\* ------------------------------------------------------- outer driver
\* A new outer iteration: the working state is rebuilt from scratch.
StartIteration ==
    /\ pc = "idle"
    /\ phase # "select"
    /\ iter < MaxIters
    /\ iter' = iter + 1
    /\ model_indices' = [j \in DOMAIN model_indices |-> 0]
    /\ mpoints' = 0
    /\ qmat' = Identity(n)
    /\ q_is_I' = 1
    /\ phase' = "select"
    /\ UNCHANGED <<n, delta, minindex, hist, pc, err, frame>>

\* The driver completes n directions to the n+1-point affine model by
\* putting the best point first.
InsertMinindex ==
    /\ pc = "idle"
    /\ phase \in {"select", "improve"}
    /\ mpoints = n
    /\ model_indices' = [j \in DOMAIN model_indices |->
                            IF j = 0 THEN minindex
                            ELSE IF j <= n THEN model_indices[j - 1]
                            ELSE model_indices[j]]
    /\ mpoints' = n + 1
    /\ phase' = "extend"
    /\ UNCHANGED <<ctx, hist, qmat, q_is_I, pc, err, frame>>

\* ------------------------------------------------- find_nearby_points
\* for i in range(nhist - 1, -1, -1)
FnpFirst == nhist - 1
FnpNextI(i) == i - 1

FnpCall ==
    /\ pc = "idle"
    /\ phase = "select"
    /\ \E c \in CSet, theta1 \in Theta1Set :
          frame' = [op |-> "fnp", i |-> FnpFirst, c |-> c, theta1 |-> theta1,
                    mpoints0 |-> mpoints, q_is_I0 |-> q_is_I, broke |-> FALSE]
    /\ pc' = "fnp"
    /\ UNCHANGED <<ctx, hist, model_indices, mpoints, qmat, q_is_I, err, phase>>

\* xk = (xhist[i, :] - xmin) / delta
ScaledDir(h) == VDiv(VSub(xhist[h], xmin), delta)

\* xk_plus: xk itself, or qr_multiply(qmat, xk) when Q is not the identity.
FnpProjected(xk) == IF q_is_I = 0 THEN VecMat(xk, QFactor(qmat)) ELSE xk

\* normd <= c, on squares (c >= 0).
FnpNear(xk, c) == NormSq(xk) <= c * c

\* proj >= theta1 with proj = norm(xk_plus[mpoints:]), on squares
\* (theta1 >= 0).
FnpAccepts(xk, theta1) == TailNormSq(FnpProjected(xk), mpoints) >= theta1 * theta1

\* qmat = np.zeros((n, n)); qmat[:, mp] = xk
FnpNewQ(xk, mp) == SetCol(ZeroMat(n), mp, xk)

\* The break displaced by one: the scan goes on with mpoints == n.
FnpBreaksLate(xk, c, mp) == FnpNear(xk, c) /\ mp > n

\* if mpoints == n: break (inside the normd <= c branch)
FnpBreaks(xk, c, mp) == FnpNear(xk, c) /\ mp = n

\* One iteration of the loop over i = nhist - 1, ..., 0.
FnpIter ==
    /\ pc = "fnp"
    /\ frame.i >= 0
    /\ ~frame.broke
    /\ LET i == frame.i
           xk == ScaledDir(i)
           accept == FnpNear(xk, frame.c) /\ FnpAccepts(xk, frame.theta1)
           mp1 == IF accept THEN mpoints + 1 ELSE mpoints
       IN  IF accept /\ mpoints >= n
           THEN \* qmat[:, mpoints - 1] is out of bounds; model_indices was
                \* already written in place.
                /\ model_indices' = [model_indices EXCEPT ![mpoints] = i]
                /\ pc' = "error"
                /\ err' = "IndexError"
                /\ UNCHANGED <<mpoints, qmat, q_is_I, frame>>
           ELSE /\ IF accept
                   THEN /\ model_indices' = [model_indices EXCEPT ![mpoints] = i]
                        /\ qmat' = FnpNewQ(xk, mpoints)
                        /\ q_is_I' = 0
                   ELSE UNCHANGED <<model_indices, qmat, q_is_I>>
                /\ mpoints' = mp1
                /\ frame' = [frame EXCEPT
                               !.i = FnpNextI(i),
                               !.broke = FnpBreaks(xk, frame.c, mp1)]
                /\ UNCHANGED <<pc, err>>
    /\ UNCHANGED <<ctx, hist, phase>>

\* The loop has ended: nothing is left to scan, or it broke.
FnpDone == pc = "fnp" /\ (frame.i < 0 \/ frame.broke)

FnpReturn ==
    /\ FnpDone
    /\ pc' = "idle"
    /\ frame' = NoFrame
    /\ UNCHANGED <<ctx, hist, model_indices, mpoints, qmat, q_is_I, err, phase>>

\* ------------------------------------------------------ improve_model
\* Aggregated model gradients and Hessians a call may be given.
JacSet(nn) == {[k \in Dim(nn) |-> 1], [k \in Dim(nn) |-> -1]}
HessSet(nn) ==
    {ZeroMat(nn),
     [r \in Dim(nn) |-> [k \in Dim(nn) |->
        IF r # k THEN 1 ELSE IF r = 0 THEN 3 ELSE 0]]}

\* qr_multiply(qmat, np.eye(3), mode="right") needs qmat.shape[0] == 3.
ImShapesOk == n = EyeDim

\* qtmp, _ = qr_multiply(qmat, np.eye(3), mode="right"): eye @ Q.
ImQtmp == QFactor(qmat)

ImCall ==
    /\ pc = "idle"
    /\ phase = "select"
    /\ mpoints <= n
    /\ \E addallpoints \in AddAllSet, jac_res \in JacSet(n), hess_res \in HessSet(n) :
          IF ImShapesOk
          THEN /\ frame' = [op |-> "im", i |-> mpoints,
                            addallpoints |-> addallpoints,
                            jac_res |-> jac_res, hess_res |-> hess_res,
                            qtmp |-> ImQtmp,
                            work |-> [k \in 0 .. (WorkLen - 1) |-> 0],
                            minindex_internal |-> 0, minvalue |-> "inf",
                            mpoints0 |-> mpoints, nhist0 |-> nhist,
                            ncrit |-> 0, index |-> -1]
               /\ pc' = "im"
               /\ err' = err
          ELSE /\ frame' = [op |-> "im", addallpoints |-> addallpoints,
                            mpoints0 |-> mpoints, nhist0 |-> nhist,
                            ncrit |-> 0, index |-> -1]
               /\ pc' = "error"
               /\ err' = "ValueError"
    /\ phase' = "improve"
    /\ UNCHANGED <<ctx, hist, model_indices, mpoints, qmat, q_is_I>>

\* xhist[nhist] = delta * qtmp[:, index] + xhist[minindex]
NewPoint(qtmp, index) == VAdd(VScale(delta, Col(qtmp, index)), xhist[minindex])

\* _add_point writing over the newest row instead of the next free one.
AddPointOverwrites(qtmp, index) ==
    /\ xhist' = [xhist EXCEPT ![nhist - 1] = NewPoint(qtmp, index)]
    /\ fhist' = [fhist EXCEPT ![nhist - 1] = criterion(NewPoint(qtmp, index))]
    /\ fnorm' = [fnorm EXCEPT ![nhist - 1] = compute_fnorm(criterion(NewPoint(qtmp, index)))]
    /\ model_indices' = [model_indices EXCEPT ![mpoints] = nhist]
    /\ mpoints' = mpoints + 1
    /\ nhist' = nhist + 1

\* _add_point with room in the History: the new vector, its residual and
\* its norm go to row nhist, and nhist joins the model.
AddPointStores(qtmp, index) ==
    /\ xhist' = [xhist EXCEPT ![nhist] = NewPoint(qtmp, index)]
    /\ fhist' = [fhist EXCEPT ![nhist] = criterion(NewPoint(qtmp, index))]
    /\ fnorm' = [fnorm EXCEPT ![nhist] = compute_fnorm(criterion(NewPoint(qtmp, index)))]
    /\ model_indices' = [model_indices EXCEPT ![mpoints] = nhist]
    /\ mpoints' = mpoints + 1
    /\ nhist' = nhist + 1

\* _add_point with the History full: xhist[nhist] is out of bounds.
AddPointFails ==
    /\ pc' = "error"
    /\ err' = "IndexError"
    /\ UNCHANGED <<hist, model_indices, mpoints>>

\* The capacity test off by one.
HasRoomOffByOne == nhist <= HistCapacity

\* xhist[nhist] exists.
HasRoom == nhist < HistCapacity

\* twice work[i] = twice dot(q, jac_res + 0.5 * dot(hess_res, q))
Work2(q, jac_res, hess_res) == 2 * Dot(q, jac_res) + Dot(q, MatVec(hess_res, q))

\* (i == mpoints) or (work[i] < minvalue)
ImIsNewMin(i, w, minvalue) == (i = mpoints) \/ (w < minvalue)

\* One iteration of the loop over the missing directions i.
ImIter ==
    /\ pc = "im"
    /\ frame.i < n
    /\ LET i == frame.i
           dp == Dot(Col(frame.qtmp, i), frame.jac_res)
           qtmp1 == IF dp > 0
                    THEN SetCol(frame.qtmp, i, VScale(-1, Col(frame.qtmp, i)))
                    ELSE frame.qtmp
           w == Work2(Col(qtmp1, i), frame.jac_res, frame.hess_res)
           newmin == ImIsNewMin(i, w, frame.minvalue)
           f1 == [frame EXCEPT
                    !.qtmp = qtmp1,
                    !.work = [@ EXCEPT ![i] = w],
                    !.minindex_internal = IF newmin THEN i ELSE @,
                    !.minvalue = IF newmin THEN w ELSE @,
                    !.i = i + 1]
       IN  IF frame.addallpoints # 0
           THEN IF HasRoom
                THEN /\ AddPointStores(qtmp1, i)
                     /\ frame' = [f1 EXCEPT !.ncrit = @ + 1, !.index = i]
                     /\ UNCHANGED <<pc, err>>
                ELSE /\ AddPointFails
                     /\ frame' = [f1 EXCEPT !.i = i]
           ELSE /\ frame' = f1
                /\ UNCHANGED <<hist, model_indices, mpoints, pc, err>>
    /\ UNCHANGED <<ctx, qmat, q_is_I, phase>>

\* After the loop: the single best direction is sampled in default mode.
ImFinish ==
    /\ pc = "im"
    /\ frame.i >= n
    /\ IF frame.addallpoints = 0
       THEN IF HasRoom
            THEN /\ AddPointStores(frame.qtmp, frame.minindex_internal)
                 /\ frame' = [frame EXCEPT !.ncrit = @ + 1,
                                           !.index = frame.minindex_internal]
                 /\ pc' = "im_done"
                 /\ err' = err
            ELSE /\ AddPointFails
                 /\ frame' = frame
       ELSE /\ pc' = "im_done"
            /\ UNCHANGED <<hist, model_indices, mpoints, err, frame>>
    /\ UNCHANGED <<ctx, qmat, q_is_I, phase>>

ImReturn ==
    /\ pc = "im_done"
    /\ pc' = "idle"
    /\ frame' = NoFrame
    /\ UNCHANGED <<ctx, hist, model_indices, mpoints, qmat, q_is_I, err, phase>>

\* ---------------------------------------------------- add_more_points
RECURSIVE Det(_, _)
\* Determinant of the m x m matrix A, by expansion along its first row.
Det(A, m) ==
    IF m = 0 THEN 1
    ELSE IF m = 1 THEN A[0][0]
    ELSE SumOver(
           [k \in 0 .. (m - 1) |->
              (IF k % 2 = 0 THEN 1 ELSE -1) * A[0][k]
              * Det([r \in 0 .. (m - 2) |-> [q \in 0 .. (m - 2) |->
                        A[r + 1][IF q < k THEN q ELSE q + 1]]], m - 1)],
           0 .. (m - 1))

\* Number of quadratic features: int(n * (n + 1) / 2).
NumPhi(nn) == (nn * (nn + 1)) \div 2

\* A row of M: M[i, 0] = 1, M[i, 1:] = the scaled direction y.
MRow(y) == [k \in 0 .. n |-> IF k = 0 THEN 1 ELSE y[k - 1]]
\* M[i, 1:]
MTail(row) == [k \in Dim(n) |-> row[k + 1]]

\* Four times dot(_evaluate_phi(x), _evaluate_phi(y)): the squares give
\* 0.25 x_i^2 y_i^2 and the cross terms 0.5 x_i x_k y_i y_k, which add up
\* to dot(x, y)^2 / 4.
PhiGram4(x, y) == Dot(x, y) * Dot(x, y)

\* Determinant of the affine block M[:n+1, :n+1].
AffineDet(M) == Det([r \in 0 .. n |-> M[r]], n + 1)
\* The same with row a replaced by `row`: AffineDet times the a-th
\* barycentric coordinate of `row` in the first n+1 rows.
BaryDet(M, a, row) == Det([r \in 0 .. n |-> IF r = a THEN row ELSE M[r]], n + 1)

\* A vector of the null space of M[:m1, :].T: row e (an extra point) minus
\* its affine combination of the first n+1 rows, scaled by AffineDet.
NullVec(M, e, m1) ==
    [a \in 0 .. (m1 - 1) |->
        IF a <= n THEN -BaryDet(M, a, M[e])
        ELSE IF a = e THEN AffineDet(M)
        ELSE 0]

\* The null vectors of the extra rows n+1 .. m1-1, one per extra point.
NullBasis(M, m1) ==
    [j \in 0 .. (m1 - n - 2) |-> NullVec(M, n + 1 + j, m1)]

\* 4 N N^T for the rows of M[:m1, :].
Gram4(M, m1) ==
    [a \in 0 .. (m1 - 1) |-> [b \in 0 .. (m1 - 1) |->
        PhiGram4(MTail(M[a]), MTail(M[b]))]]

\* With B the null vectors as columns and G = N N^T:
\* 4 B^T G B - 4 theta2^2 B^T B.  It is congruent to
\* 4 (Z^T N)(Z^T N)^T - 4 theta2^2 I for the orthonormal Z that qr_multiply
\* uses, L_tmp.T[n + 1:] being Z^T N.
PoisedForm(B, G4, theta2) ==
    [j \in DOMAIN B |-> [l \in DOMAIN B |->
        Dot(B[j], MatVec(G4, B[l])) - 4 * theta2 * theta2 * Dot(B[j], B[l])]]

\* beta[min(mpoints - n, nphi) - 1] > theta2: the smallest singular value of
\* L_tmp.T[n + 1:] exceeds theta2 (theta2 >= 0), i.e. PoisedForm is
\* positive definite: all its leading principal minors are positive.
AmpPoised(M, m1, theta2) ==
    \E B \in {NullBasis(M, m1)} : \E G4 \in {Gram4(M, m1)} :
        \E C \in {PoisedForm(B, G4, theta2)} :
            \A s \in 1 .. (m1 - (n + 1)) : Det(C, s) > 0

\* Q_tmp[:7, : n + 1] = M broadcasts only a (7, n + 1) or (1, n + 1) M into
\* the (7, min(n + 1, 7)) target.
AmpShapesOk(maxinterp) ==
    /\ n + 1 <= QtmpDim
    /\ (maxinterp = QtmpDim \/ maxinterp = 1)

\* The first n+1 model points are affinely independent: the affine model
\* the driver hands over is well posed.
AffineModelOk ==
    AffineDet([r \in 0 .. n |-> MRow(ScaledDir(model_indices[r]))]) # 0

AmpCall ==
    /\ pc = "idle"
    /\ phase = "extend"
    /\ AffineModelOk
    /\ \E c2 \in C2Set, theta2 \in Theta2Set, maxinterp \in {n + 1, 2 * n + 1} :
          frame' = [op |-> "amp", point |-> nhist - 1, c2 |-> c2,
                    theta2 |-> theta2, maxinterp |-> maxinterp, reject |-> 0,
                    M |-> [r \in 0 .. (maxinterp - 1) |->
                             IF r <= n THEN MRow(ScaledDir(model_indices[r]))
                             ELSE [k \in 0 .. n |-> IF k = 0 THEN 1 ELSE 0]],
                    Q_tmp |-> "unbound", L |-> "unbound", Zwidth |-> -1]
    /\ mpoints' = n + 1
    /\ pc' = "amp"
    /\ phase' = "done"
    /\ UNCHANGED <<ctx, hist, model_indices, qmat, q_is_I, err>>

\* The loop condition without its maxinterp test.
AmpLoopsUncapped == frame.point >= 0

\* while (mpoints < maxinterp) and (point >= 0)
AmpLoops == mpoints < frame.maxinterp /\ frame.point >= 0

\* Reject any points already in the model: point == model_indices[i] for
\* some i in range(n + 1).
AmpInModel(point) == \E i \in 0 .. n : point = model_indices[i]

\* normd > c2 with normd = norm(xhist[point] - xhist[minindex]) / delta,
\* on squares (c2 >= 0).
AmpTooFar(point, c2) ==
    NormSq(VSub(xhist[point], xhist[minindex])) > c2 * c2 * delta * delta

\* One iteration of the extension loop.
AmpIter ==
    /\ pc = "amp"
    /\ AmpLoops
    /\ LET point == frame.point
           mp == mpoints
       IN  IF AmpInModel(point)
           THEN \* reject = 1; point -= 1; continue
                /\ frame' = [frame EXCEPT !.reject = 1, !.point = point - 1]
                /\ UNCHANGED <<model_indices, mpoints, pc, err>>
           ELSE LET reject == IF AmpTooFar(point, frame.c2) THEN 1 ELSE 0
                    M1 == [frame.M EXCEPT ![mp] = MRow(ScaledDir(point))]
                IN  IF ~AmpShapesOk(frame.maxinterp)
                    THEN /\ frame' = [frame EXCEPT !.reject = reject, !.M = M1]
                         /\ pc' = "error"
                         /\ err' = "ValueError"
                         /\ UNCHANGED <<model_indices, mpoints>>
                    ELSE IF AmpPoised(M1, mp + 1, frame.theta2)
                    THEN \* Accept point
                         /\ model_indices' = [model_indices EXCEPT ![mp] = point]
                         /\ mpoints' = mp + 1
                         /\ frame' = [frame EXCEPT
                                        !.reject = reject, !.M = M1,
                                        !.Q_tmp = "bound", !.L = "L_tmp",
                                        !.point = point - 1]
                         /\ UNCHANGED <<pc, err>>
                    ELSE /\ frame' = [frame EXCEPT
                                        !.reject = reject, !.M = M1,
                                        !.Q_tmp = "bound", !.point = point - 1]
                         /\ UNCHANGED <<model_indices, mpoints, pc, err>>
    /\ UNCHANGED <<ctx, hist, qmat, q_is_I, phase>>

\* L = np.zeros((maxinterp, nphi)); L[:n, :n] = np.eye(n)
IdentityBlock(maxinterp) ==
    [r \in 0 .. (maxinterp - 1) |-> [k \in 0 .. (NumPhi(n) - 1) |->
        IF r = k /\ r < n THEN 1 ELSE 0]]

\* After the loop: Z is cut from qr_multiply(Q_tmp[:mpoints, :], ...), and
\* L gets its default when no extra point was accepted.
AmpFinish ==
    /\ pc = "amp"
    /\ ~AmpLoops
    /\ IF frame.Q_tmp = "unbound"
       THEN \* Q_tmp was never assigned: the loop factorized no candidate.
            /\ pc' = "error"
            /\ err' = "UnboundLocalError"
            /\ frame' = frame
       ELSE /\ frame' = [frame EXCEPT
                           !.Zwidth = mpoints - (n + 1),
                           !.L = IF mpoints = n + 1
                                 THEN IdentityBlock(frame.maxinterp) ELSE @]
            /\ pc' = "amp_done"
            /\ err' = err
    /\ UNCHANGED <<ctx, hist, model_indices, mpoints, qmat, q_is_I, phase>>

AmpReturn ==
    /\ pc = "amp_done"
    /\ pc' = "idle"
    /\ frame' = NoFrame
    /\ UNCHANGED <<ctx, hist, model_indices, mpoints, qmat, q_is_I, err, phase>>

Next ==
    \/ StartIteration
    \/ InsertMinindex
    \/ FnpCall
    \/ FnpIter
    \/ FnpReturn
    \/ ImCall
    \/ ImIter
    \/ ImFinish
    \/ ImReturn
    \/ AmpCall
    \/ AmpIter
    \/ AmpFinish
    \/ AmpReturn

Spec == Init /\ [][Next]_vars
\* ============================================================= claims
InAmp == frame.op = "amp" /\ pc \in {"amp", "amp_done"}
ExtraSlots == (n + 1) .. (mpoints - 1)

\* C1: add_more_points never accepts a point whose scaled distance from
\* xmin exceeds c2: no index in model_indices[n+1 .. mpoints) refers to one.
C1_FarPointNeverAccepted ==
    InAmp => \A j \in ExtraSlots : ~AmpTooFar(model_indices[j], frame.c2)

\* The first n+1 entries are pairwise distinct valid History indices.
AffinePrefixValid ==
    /\ \A j \in 0 .. n : model_indices[j] \in 0 .. (nhist - 1)
    /\ \A j, l \in 0 .. n : j # l => model_indices[j] # model_indices[l]

C2_State ==
    (InAmp /\ AffinePrefixValid) =>
        /\ n + 1 <= mpoints
        /\ mpoints <= frame.maxinterp
        /\ \A j \in 0 .. (mpoints - 1) : model_indices[j] \in 0 .. (nhist - 1)
        /\ \A j, l \in 0 .. (mpoints - 1) :
              j # l => model_indices[j] # model_indices[l]
        /\ pc = "amp_done" => (mpoints = frame.maxinterp \/ frame.point < 0)

C2_Step ==
    (pc = "amp" /\ pc' \in {"amp", "amp_done"}) =>
        /\ pc' = "amp" =>
              /\ mpoints < frame.maxinterp
              /\ frame.point >= 0
              /\ frame'.point = frame.point - 1
        /\ pc' = "amp_done" => (mpoints = frame.maxinterp \/ frame.point < 0)

\* C2: called with model_indices[0..n] pairwise distinct and valid,
\* add_more_points keeps n+1 <= mpoints <= maxinterp and model_indices[0 ..
\* mpoints) pairwise distinct and valid; its loop examines the History
\* indices one by one downwards and ends as soon as mpoints == maxinterp or
\* index 0 has been examined.
C2_ModelIndexSetAfterExtension == [](C2_State) /\ [][C2_Step]_vars

C2_Witness ==
    /\ pc = "amp_done"
    /\ mpoints = frame.maxinterp
    /\ mpoints > n + 1
    /\ frame.point >= 0

C3_Step ==
    /\ nhist' >= nhist
    /\ \A h \in HistIdx : h # nhist =>
          /\ xhist'[h] = xhist[h]
          /\ fhist'[h] = fhist[h]
          /\ fnorm'[h] = fnorm[h]
    /\ nhist' # nhist =>
          /\ nhist' = nhist + 1
          /\ fhist'[nhist] = criterion(xhist'[nhist])
          /\ fnorm'[nhist] = Dot(fhist'[nhist], fhist'[nhist])
    /\ nhist' = nhist => <<xhist', fhist', fnorm'>> = <<xhist, fhist, fnorm>>

\* C3: History is append-only: nhist never decreases, an append writes the
\* point, its residual and fnorm = dot(residual, residual) at index nhist
\* and then adds 1 to nhist, and no entry below nhist ever changes.
C3_HistoryAppendOnly == [][C3_Step]_vars

C3_Witness ==
    /\ frame.op = "im"
    /\ pc = "im"
    /\ frame.ncrit >= 2
    /\ nhist = frame.nhist0 + frame.ncrit

InFnp == frame.op = "fnp" /\ pc = "fnp"
FnpPre == frame.mpoints0 <= n /\ frame.theta1 > 0

C4_State ==
    /\ InFnp =>
          /\ \A j \in frame.mpoints0 .. (mpoints - 1) :
                /\ model_indices[j] > frame.i
                /\ model_indices[j] < nhist
                /\ \A l \in frame.mpoints0 .. (mpoints - 1) :
                      j < l => model_indices[j] > model_indices[l]
          /\ FnpPre => mpoints <= n
          /\ (mpoints = n /\ mpoints > frame.mpoints0) => frame.broke
    /\ (pc = "error" /\ frame.op = "fnp") => ~FnpPre

C4_Step ==
    (InFnp /\ pc' = "fnp" /\ frame' # frame) =>
        /\ frame'.i = frame.i - 1
        /\ mpoints' # mpoints =>
              /\ mpoints' = mpoints + 1
              /\ model_indices'[mpoints] = frame.i
        /\ (FnpPre /\ mpoints = n) =>
              /\ mpoints' = mpoints
              /\ model_indices' = model_indices

\* C4: find_nearby_points scans the History from nhist-1 downwards, each
\* index once; the indices it records are in strictly decreasing order;
\* once mpoints == n it accepts nothing more, so with entry mpoints <= n and
\* theta1 > 0 it returns mpoints <= n.
C4_ScanNewestFirst == [](C4_State) /\ [][C4_Step]_vars

C4_Witness ==
    /\ FnpDone
    /\ FnpPre
    /\ mpoints = n
    /\ mpoints - frame.mpoints0 >= 2
    /\ frame.i >= 0

ImEnded == frame.op = "im" /\ pc \in {"im_done", "error"}
ImNeeded == IF frame.addallpoints # 0 THEN n - frame.mpoints0 ELSE 1

\* C5: a call of improve_model with room in the History issues exactly
\* n - mpoints criterion calls in evaluate-all mode (ending with mpoints ==
\* n) and exactly one otherwise, each adding one History point and one
\* model index.
C5_EvaluationBudget ==
    (ImEnded /\ frame.nhist0 + ImNeeded <= HistCapacity) =>
        /\ pc = "im_done"
        /\ frame.ncrit = ImNeeded
        /\ frame.ncrit <= n
        /\ mpoints = frame.mpoints0 + frame.ncrit
        /\ nhist = frame.nhist0 + frame.ncrit
        /\ frame.addallpoints # 0 => mpoints = n

\* improve_model is about to call _add_point.
AppendAttempted ==
    /\ pc = "im"
    /\ \/ frame.i < n /\ frame.addallpoints # 0
       \/ frame.i >= n /\ frame.addallpoints = 0

C6_Step ==
    (AppendAttempted /\ nhist = HistCapacity) =>
        /\ pc' = "error"
        /\ err' = "IndexError"
        /\ <<xhist', fhist', fnorm', nhist'>> = <<xhist, fhist, fnorm, nhist>>
        /\ model_indices' = model_indices
        /\ mpoints' = mpoints

\* C6: with the History at capacity an append attempted by improve_model
\* fails fatally and stores nothing: History, model_indices, mpoints and
\* nhist are as they were.
C6_FullHistoryFails == [][C6_Step]_vars

C6_Witness ==
    /\ pc = "error"
    /\ err = "IndexError"
    /\ frame.op = "im"
    /\ nhist = HistCapacity

\* C7: after find_nearby_points, entered with mpoints = 0 and Q marked
\* identity, column j of Q is the scaled direction of the j-th accepted
\* point for every j < mpoints, and q_is_I is 0 exactly when a point was
\* accepted.
C7_BasisKeepsAcceptedDirections ==
    (FnpDone /\ frame.mpoints0 = 0 /\ frame.q_is_I0 = 1 /\ frame.theta1 > 0) =>
        /\ \A j \in 0 .. (mpoints - 1) :
              Col(qmat, j) = ScaledDir(model_indices[j])
        /\ (q_is_I = 0) <=> (mpoints > 0)

\* C8: when add_more_points accepts no extra point it returns normally
\* with mpoints == n+1, a Z of width 0 and L the identity on its leading
\* n x n block.
C8_DegenerateExtension ==
    (frame.op = "amp" /\ pc \in {"amp_done", "error"} /\ mpoints = n + 1
        /\ err # "ValueError") =>
        /\ pc = "amp_done"
        /\ frame.Zwidth = 0
        /\ frame.L = IdentityBlock(frame.maxinterp)

MissingRange == frame.mpoints0 .. (n - 1)

\* The point sampled by a default-mode call is the best missing direction.
SampledBest ==
    /\ frame.ncrit = 1
    /\ frame.index \in MissingRange
    /\ \A j \in MissingRange :
          /\ frame.work[j] = Work2(Col(frame.qtmp, j), frame.jac_res, frame.hess_res)
          /\ frame.work[frame.index] <= frame.work[j]
          /\ frame.work[j] = frame.work[frame.index] => frame.index <= j
    /\ xhist[frame.nhist0] =
          VAdd(xhist[minindex], VScale(delta, Col(frame.qtmp, frame.index)))
    /\ model_indices[frame.mpoints0] = frame.nhist0

\* C9: for every entry value 0 <= mpoints <= n a default-mode call of
\* improve_model with room in the History samples exactly one direction:
\* the lowest-scoring index of the missing range [mpoints, n), the lowest
\* such index on ties; the new point is xhist[minindex] + delta *
\* qtmp[:, index], recorded at model_indices[mpoints].
C9_DefaultSamplesBestMissing ==
    (ImEnded /\ frame.addallpoints = 0 /\ frame.nhist0 < HistCapacity) =>
        /\ pc = "im_done"
        /\ SampledBest

\* C10: with consistently sized inputs (maxinterp = 2n+1) improve_model
\* and add_more_points never fail on array dimensions, whatever n >= 1.
C10_NoShapeError ==
    ~ /\ pc = "error"
      /\ err = "ValueError"
      /\ \/ frame.op = "im"
         \/ frame.op = "amp" /\ frame.maxinterp = 2 * n + 1
====
